---- MODULE Spec2Model ----
(***************************************************************************)
(* A model of frate: the installer (install / uninstall / archive cache)   *)
(* and the resolver (resolve / lockfile sync).                             *)
(*                                                                         *)
(* Representation of strings.  A string is modelled by the pieces the code *)
(* takes it apart into:                                                    *)
(*   - a file or tool name is the sequence of its '.'-separated parts      *)
(*     ("rg.exe" is <<"rg","exe">>), so file_stem / with_extension /       *)
(*     ends_with(".tar.gz") are computed on it;                            *)
(*   - a URL or path is the sequence of its '/'-separated segments, each a *)
(*     name ("https://h/a/dl.tar.gz" has the empty segment after "https:");*)
(*   - a hash string is an optional "sha256:" token followed by the hex    *)
(*     digest;                                                             *)
(*   - a version or release key is the sequence of its '-'-separated       *)
(*     tokens, each the sequence of its '.'-separated parts.               *)
(***************************************************************************)
EXTENDS Integers, Sequences, FiniteSets, TLC

VARIABLES
  host,      \* [arch, os]: std::env::consts::{ARCH, OS} of the build
  cache,     \* the global cache directory: [exists, files: file name -> bytes]
  fs,        \* per install root: the .frate/bin and .frate/shims directories
  last,      \* record of the last installer / cache operation and its outcome
  manifest,  \* FrateToml.dependencies: tool name -> version requirement
  lock,      \* FrateLock.packages
  lastSync,  \* record of the last sync: its inputs and iteration order
  res,       \* record of the last resolve_dependency / expand_version call
  disk,      \* the file frate.lock: [kind, content]
  lastCall,  \* record of the last manifest or lockfile call
  attempts,  \* the packages the last install_packages run tried, in order
  procs      \* the concurrent invocations of install: each one's position

vars ==
  <<host, cache, fs, last, manifest, lock, lastSync, res, disk, lastCall,
    attempts, procs>>

(***************************************************************************)
(* Sequence helpers                                                        *)
(***************************************************************************)
Last(s) == s[Len(s)]

Front(s) == SubSeq(s, 1, Len(s) - 1)

\* s occurs in t as a contiguous run (str::contains on the modelled pieces)
Contains(t, s) ==
  \E i \in 1..(Len(t) - Len(s) + 1) : SubSeq(t, i, i + Len(s) - 1) = s

RECURSIVE SeqToSet(_)
SeqToSet(s) == IF s = <<>> THEN {} ELSE {s[1]} \cup SeqToSet(Tail(s))

(***************************************************************************)
(* The lockfile on disk and the record of a manifest or lockfile call      *)
(***************************************************************************)
\* no file at the path
NoFile == [kind |-> "missing", content |-> <<>>]

\* no call yet
NoCall ==
  [op |-> "none", result |-> "ok", name |-> <<>>, version |-> <<>>,
   existed |-> FALSE, afterSave |-> FALSE]

(***************************************************************************)
(* Hosts                                                                   *)
(***************************************************************************)
LinuxHost == [arch |-> "x86_64", os |-> "linux"]
WindowsHost == [arch |-> "x86_64", os |-> "windows"]
OtherHost == [arch |-> "riscv64", os |-> "freebsd"]

\* cfg(unix) / cfg(windows), cfg(target_os = "windows")
IsWindows(h) == h.os = "windows"

(***************************************************************************)
(* Hashes                                                                  *)
(***************************************************************************)
NoBytes == "none"
Bytes == {"A", "B", "D", "T"}

\* what a file holds when the write of its bytes was cut short: a proper
\* prefix of them, possibly nothing
Truncated == "P"

\* hex::encode(Sha256(bytes)): distinct contents have distinct digests
Sha256Hex(b) ==
  CASE b = "A" -> <<"0a">>
    [] b = "B" -> <<"0b">>
    [] b = "D" -> <<"0d">>
    [] b = "P" -> <<"0p">>
    [] OTHER -> <<"0t">>

\* util::format_hash: strip_prefix("sha256:")
format_hash(hash) ==
  IF Len(hash) >= 1 /\ hash[1] = "sha256:" THEN Tail(hash) ELSE hash

(***************************************************************************)
(* Archives: what bytes are, as an archive                                 *)
(***************************************************************************)
F_just == <<"just">>
F_rg == <<"rg", "exe">>
F_readme == <<"README", "md">>
Files == {F_just, F_rg, F_readme}

\* files whose Unix mode has an execute bit
XBitFiles == {F_just, F_rg}

\* the container format the bytes really are ("garbage": neither)
ArchiveFormat(b) ==
  CASE b = "A" -> "tar.gz"
    [] b = "B" -> "zip"
    [] b = "D" -> "tar.gz"
    [] OTHER -> "garbage"

ArchiveFiles(b) ==
  CASE b = "A" -> {F_just}
    [] b = "B" -> {F_rg, F_readme}
    [] b = "D" -> {F_just, F_readme}
    [] OTHER -> {}

(***************************************************************************)
(* Locked packages the installer is called with                            *)
(***************************************************************************)
N_just == <<"just">>
N_rg == <<"ripgrep">>
Names == {N_just, N_rg}

Url(dir, file) == << <<"https:">>, <<>>, <<"h">>, <<dir>>, file >>

U_just == Url("v1", <<"dl", "tar", "gz">>)
U_just2 == Url("v2", <<"dl", "tar", "gz">>)
U_rg == Url("rg", <<"rg", "zip">>)
U_7z == Url("rg", <<"rg", "7z">>)

\* LockedPackage {name, version, source, hash}
LockedPackage(name, version, source, hash) ==
  [name |-> name, version |-> version, source |-> source, hash |-> hash]

P_just == LockedPackage(N_just, << <<"v1">> >>, U_just, <<"sha256:", "0a">>)
P_just2 == LockedPackage(N_just, << <<"v2">> >>, U_just2, <<"0d">>)
P_rg == LockedPackage(N_rg, << <<"v1">> >>, U_rg, <<"0b">>)
P_7z == LockedPackage(N_rg, << <<"v2">> >>, U_7z, <<"sha256:", "0b">>)
\* a package whose published archive is not a zip file, with that file's hash
P_bad == LockedPackage(N_rg, << <<"v3">> >>, U_rg, <<"0t">>)
Packages == {P_just, P_just2, P_rg, P_7z, P_bad}
NoPkg == LockedPackage(<<>>, <<>>, <<>>, <<>>)

\* url.split('/').next_back()
FileNameOf(url) == Last(url)

CacheFileNames == {FileNameOf(p.source) : p \in Packages}

Roots == {"cwd", "alt"}

(***************************************************************************)
(* Names, paths and file predicates                                        *)
(***************************************************************************)
\* Path::file_stem of a file name: the name without its last extension
file_stem(f) == IF Len(f) > 1 THEN Front(f) ELSE f

\* Path::with_extension(ext): the last extension replaced (or one added)
with_extension(f, ext) == file_stem(f) \o <<ext>>

\* str::ends_with(".zip") / ends_with(".tar.gz") on a URL or path: decided
\* by its final segment
ends_with_zip(path) ==
  LET f == Last(path) IN Len(f) >= 2 /\ f[Len(f)] = "zip"

ends_with_tar_gz(path) ==
  LET f == Last(path)
  IN Len(f) >= 3 /\ f[Len(f) - 1] = "tar" /\ f[Len(f)] = "gz"

\* characters of the name and version parts the model uses
Chars(part) ==
  CASE part = "just" -> <<"j", "u", "s", "t">>
    [] part = "rg" -> <<"r", "g">>
    [] part = "ripgrep" -> <<"r", "i", "p", "g", "r", "e", "p">>
    [] part = "README" -> <<"R", "E", "A", "D", "M", "E">>
    [] part = "exe" -> <<"e", "x", "e">>
    [] part = "md" -> <<"m", "d">>
    [] part = "" -> <<>>
    [] part = "42" -> <<"4", "2">>
    [] part = "01" -> <<"0", "1">>
    [] part = "1+b7" -> <<"1", "+", "b", "7">>
    [] OTHER -> <<part>>

RECURSIVE NameChars(_)
\* the characters of a name: its parts joined by '.'
NameChars(f) ==
  IF f = <<>> THEN <<>>
  ELSE IF Len(f) = 1 THEN Chars(f[1])
  ELSE Chars(f[1]) \o <<".">> \o NameChars(Tail(f))

to_lowercase_char(c) ==
  CASE c = "R" -> "r" [] c = "E" -> "e" [] c = "A" -> "a"
    [] c = "D" -> "d" [] c = "M" -> "m" [] OTHER -> c

to_lowercase(s) == [i \in 1..Len(s) |-> to_lowercase_char(s[i])]

\* a regex word character (the names here hold letters and '.')
IsWordChar(c) == c # "." /\ c # "-"

\* Regex (?i)\b{escape(name)}.* searched in fname: name occurs, ignoring
\* case, at a word boundary
re_is_match(name, fname) ==
  LET n == to_lowercase(NameChars(name))
      f == to_lowercase(fname)
      boundary(i) ==
        (IF i = 1 THEN FALSE ELSE IsWordChar(f[i - 1]))
          # (IF i > Len(f) THEN FALSE ELSE IsWordChar(f[i]))
  IN \E i \in 1..(Len(f) - Len(n) + 1) :
       /\ SubSeq(f, i, i + Len(n) - 1) = n
       /\ boundary(i)

RankMatch == 0
RankOther == 10

\* the sort key of get_binary
Rank(name, f) ==
  IF re_is_match(name, to_lowercase(NameChars(file_stem(f))))
  THEN RankMatch ELSE RankOther

\* util::is_executable: cfg(unix) the mode bits, cfg(windows) the extension
is_executable(h, f) ==
  IF IsWindows(h)
  THEN Len(f) > 1 /\ f[Len(f)] \in {"exe", "bat", "cmd"}
  ELSE f \in XBitFiles

(***************************************************************************)
(* The project directories                                                 *)
(***************************************************************************)
NoDirEntry == [exists |-> FALSE, files |-> {}]
EmptyDir == [exists |-> TRUE, files |-> {}]

FreshRoot ==
  [binExists |-> FALSE, shimsExists |-> FALSE,
   bin |-> [n \in Names |-> NoDirEntry], shims |-> {}]

InitRoot ==
  [binExists |-> TRUE, shimsExists |-> TRUE,
   bin |-> [n \in Names |-> NoDirEntry], shims |-> {}]

\* ensure_frate_dirs: create_dir_all of .frate, .frate/bin, .frate/shims
ensure_frate_dirs(f, r) ==
  [f EXCEPT ![r].binExists = TRUE, ![r].shimsExists = TRUE]

\* the file a path names exists (the target of a shim)
TargetExists(f, t) ==
  /\ f[t.root].binExists
  /\ f[t.root].bin[t.name].exists
  /\ t.file \in f[t.root].bin[t.name].files

ShimPaths(f, r) == {s.path : s \in f[r].shims}

\* Path::exists of a shim path: it follows a symbolic link, so a link whose
\* target is gone does not "exist"; a .bat script is a regular file
shim_exists(h, f, r, path) ==
  \E s \in f[r].shims :
    /\ s.path = path
    /\ (IsWindows(h) \/ TargetExists(f, s.target))

(***************************************************************************)
(* The archive cache (global/cache.rs)                                     *)
(***************************************************************************)
CacheDirPath == << <<>>, <<"home">>, <<".cache">>, <<"frate">> >>

EmptyCacheFiles == [n \in CacheFileNames |-> NoBytes]

\* the entries WalkDir yields: the root first, then its files
CacheEntries(c) ==
  IF c.exists
  THEN {CacheDirPath} \cup
       {CacheDirPath \o <<n>> : n \in {m \in CacheFileNames : c.files[m] # NoBytes}}
  ELSE {}

\* mutant: the lookup never finds a file
get_cached_archive_never(c, url) == FALSE

\* cache::get_cached_archive(url): cache_dir/{file name of url} exists
get_cached_archive(c, url) ==
  c.exists /\ c.files[FileNameOf(url)] # NoBytes

\* is_cached: some entry's path contains the given string
is_cached(c, full_name) ==
  \E path \in CacheEntries(c) : Contains(path, full_name)

\* mutant: a file that is there already is kept
cache_archive_keep(c, url, bytes) ==
  [exists |-> TRUE,
   files |-> [c.files EXCEPT ![FileNameOf(url)] =
                IF c.exists /\ @ # NoBytes THEN @ ELSE bytes]]

\* cache::cache_archive(url, bytes): create_dir_all, File::create, fs::write
cache_archive(c, url, bytes) ==
  [exists |-> TRUE, files |-> [c.files EXCEPT ![FileNameOf(url)] = bytes]]

clean_cache(c) == [exists |-> TRUE, files |-> EmptyCacheFiles]

(***************************************************************************)
(* Extraction                                                              *)
(***************************************************************************)
\* zip.extract(dest) / archive.unpack(dest): the archive's files are written
\* into the directory, over files of the same name; bytes that are not an
\* archive of the dispatched format make the extractor fail
Extract(f, r, name, bytes, format) ==
  IF ArchiveFormat(bytes) = format
  THEN [ok |-> TRUE,
        fs |-> [f EXCEPT ![r].bin[name].files = @ \cup ArchiveFiles(bytes)]]
  ELSE [ok |-> FALSE, fs |-> f]

\* what one install step returns: its result and the state it leaves
Outcome(result, f, c, get, hit, body, extracted, stored) ==
  [result |-> result, fs |-> f, cache |-> c, get |-> get, hit |-> hit,
   body |-> body, extracted |-> extracted, stored |-> stored]

\* mutant: the downloaded bytes are extracted and cached without comparing hashes
download_and_extract_unverified(f, c, r, name, url, expected, resp) ==
  LET ex == Extract(f, r, name, resp.body,
                    IF ends_with_zip(url) THEN "zip" ELSE "tar.gz")
  IN IF ex.ok
     THEN Outcome("ok", ex.fs, cache_archive(c, url, resp.body),
                  TRUE, FALSE, resp.body, resp.body, TRUE)
     ELSE Outcome("ExtractionError", f, c, TRUE, FALSE, resp.body, NoBytes, FALSE)

\* mutant: the status of the response is not looked at
download_and_extract_any_status(f, c, r, name, url, expected, resp) ==
  LET fail(kind) == Outcome(kind, f, c, TRUE, FALSE, resp.body, NoBytes, FALSE)
      done(ex) ==
        IF ~ex.ok THEN fail("ExtractionError")
        ELSE Outcome("ok", ex.fs, cache_archive(c, url, resp.body),
                     TRUE, FALSE, resp.body, resp.body, TRUE)
  IN IF Sha256Hex(resp.body) # format_hash(expected) THEN fail("IntegrityError")
     ELSE IF ends_with_zip(url) THEN done(Extract(f, r, name, resp.body, "zip"))
     ELSE IF ends_with_tar_gz(url)
     THEN done(Extract(f, r, name, resp.body, "tar.gz"))
     ELSE fail("UnsupportedArchiveType")

\* installer::download_and_extract; resp is the answer of the HTTP GET
download_and_extract(f, c, r, name, url, expected, resp) ==
  LET expected_hash == format_hash(expected)
      actual_hash == Sha256Hex(resp.body)
      fail(kind) == Outcome(kind, f, c, TRUE, FALSE, resp.body, NoBytes, FALSE)
      done(ex) ==
        IF ~ex.ok THEN fail("ExtractionError")
        ELSE IF ~is_cached(c, url)
        THEN Outcome("ok", ex.fs, cache_archive(c, url, resp.body),
                     TRUE, FALSE, resp.body, resp.body, TRUE)
        ELSE Outcome("ok", ex.fs, c, TRUE, FALSE, resp.body, resp.body, FALSE)
  IN IF ~(resp.status >= 200 /\ resp.status <= 299)
     THEN Outcome("DownloadError", f, c, TRUE, FALSE, NoBytes, NoBytes, FALSE)
     ELSE IF actual_hash # expected_hash THEN fail("IntegrityError")
     ELSE IF ends_with_zip(url) THEN done(Extract(f, r, name, resp.body, "zip"))
     ELSE IF ends_with_tar_gz(url)
     THEN done(Extract(f, r, name, resp.body, "tar.gz"))
     ELSE fail("UnsupportedArchiveType")

\* mutant: a cached archive is extracted without comparing hashes
extract_cached_unverified(f, c, r, name, cached_path, expected) ==
  LET archive_bytes == c.files[Last(cached_path)]
      ex == Extract(f, r, name, archive_bytes,
                    IF ends_with_zip(cached_path) THEN "zip" ELSE "tar.gz")
  IN IF ex.ok
     THEN Outcome("ok", ex.fs, c, FALSE, TRUE, archive_bytes, archive_bytes, FALSE)
     ELSE Outcome("ExtractionError", f, c, FALSE, TRUE, archive_bytes, NoBytes, FALSE)

\* mutant: a cached archive with another hash is deleted from the cache
extract_cached_evict(f, c, r, name, cached_path, expected) ==
  LET archive_bytes == c.files[Last(cached_path)]
      ex == Extract(f, r, name, archive_bytes,
                    IF ends_with_zip(cached_path) THEN "zip" ELSE "tar.gz")
  IN IF Sha256Hex(archive_bytes) # format_hash(expected)
     THEN Outcome("IntegrityError", f,
                  [c EXCEPT !.files[Last(cached_path)] = NoBytes],
                  FALSE, TRUE, archive_bytes, NoBytes, FALSE)
     ELSE IF ex.ok
     THEN Outcome("ok", ex.fs, c, FALSE, TRUE, archive_bytes, archive_bytes, FALSE)
     ELSE Outcome("ExtractionError", f, c, FALSE, TRUE, archive_bytes, NoBytes, FALSE)

\* installer::extract_cached
extract_cached(f, c, r, name, cached_path, expected) ==
  LET expected_hash == format_hash(expected)
      archive_bytes == c.files[Last(cached_path)]
      actual_hash == Sha256Hex(archive_bytes)
      fail(kind) == Outcome(kind, f, c, FALSE, TRUE, archive_bytes, NoBytes, FALSE)
      done(ex) ==
        IF ex.ok
        THEN Outcome("ok", ex.fs, c, FALSE, TRUE, archive_bytes, archive_bytes, FALSE)
        ELSE fail("ExtractionError")
  IN IF actual_hash # expected_hash THEN fail("IntegrityError")
     ELSE IF ends_with_zip(cached_path)
     THEN done(Extract(f, r, name, archive_bytes, "zip"))
     ELSE IF ends_with_tar_gz(cached_path)
     THEN done(Extract(f, r, name, archive_bytes, "tar.gz"))
     ELSE fail("UnsupportedArchiveType")

(***************************************************************************)
(* Locating the executable and creating the shim                           *)
(***************************************************************************)
\* util::get_binary(name): always looks under the current directory's
\* .frate/bin/{name}.  The result is the set of files it may return: the
\* candidates of the lowest rank (the sort is stable, so among equal ranks
\* the directory walk's order decides).  found = FALSE is Ok(None); an empty
\* set with found = TRUE is the "No executable found" error.
get_binary(h, f, name) ==
  LET dir == f["cwd"].bin[name]
      candidates == {x \in dir.files : is_executable(h, x)}
      best == {x \in candidates :
                 \A y \in candidates : Rank(name, x) <= Rank(name, y)}
  IN [found |-> f["cwd"].binExists /\ dir.exists,
      targets |-> {[root |-> "cwd", name |-> name, file |-> x] : x \in best}]

\* the path create_shim writes: shim_path on Unix, with ".bat" on Windows
ShimFile(h, shim_path) ==
  IF IsWindows(h) THEN with_extension(shim_path, "bat") ELSE shim_path

\* shims::create_shim: symlink(target, shim_path) fails when anything is at
\* shim_path already; fs::write of the .bat script overwrites
create_shim(h, f, r, target, shim_path) ==
  LET path == ShimFile(h, shim_path)
      others == {s \in f[r].shims : s.path # path}
  IN IF ~f[r].shimsExists THEN [ok |-> FALSE, fs |-> f]
     ELSE IF ~IsWindows(h) /\ path \in ShimPaths(f, r)
     THEN [ok |-> FALSE, fs |-> f]
     ELSE [ok |-> TRUE,
           fs |-> [f EXCEPT ![r].shims =
                     others \cup {[path |-> path, target |-> target]}]]

(***************************************************************************)
(* The installer's operations                                              *)
(***************************************************************************)
NoTarget == [root |-> "cwd", name |-> <<>>, file |-> <<>>]

NoOp ==
  [op |-> "none", pkg |-> NoPkg, name |-> <<>>, root |-> "cwd",
   result |-> "ok", get |-> FALSE, hit |-> FALSE, body |-> NoBytes,
   extracted |-> NoBytes, stored |-> FALSE, shim |-> <<>>, target |-> NoTarget,
   hadBin |-> FALSE, hadShim |-> FALSE, again |-> FALSE, status |-> 0]

\* a log entry of operation op on name, after the log entry l; again: the
\* operation before it was the same operation on the same name
Entry(l, op, name, result) ==
  [NoOp EXCEPT !.op = op, !.name = name, !.result = result,
               !.again = (l.op = op /\ l.name = name)]

\* the answers an HTTP GET may give
Responses ==
  {[status |-> 200, body |-> b] : b \in Bytes}
    \cup {[status |-> 404, body |-> NoBytes],
          [status |-> 500, body |-> NoBytes]}

NoResponse == [status |-> 0, body |-> NoBytes]

SyncUnchanged ==
  UNCHANGED <<manifest, lock, lastSync, res, disk, lastCall, attempts, procs>>

\* installer::install_package(package, frate_dir), frate_dir = r/.frate:
\* the outcomes it may have.  The GET happens only on a cache miss; which of
\* the equally ranked executables get_binary returns is the directory walk's
\* choice.
install_package(h, f, c, p, r) ==
  LET dest == [f EXCEPT ![r].binExists = TRUE, ![r].bin[p.name].exists = TRUE]
      hit == get_cached_archive(c, p.source)
  IN UNION {
       LET o == IF hit
                THEN extract_cached(dest, c, r, p.name,
                                    CacheDirPath \o <<FileNameOf(p.source)>>,
                                    p.hash)
                ELSE download_and_extract(dest, c, r, p.name, p.source,
                                          p.hash, resp)
           gb == get_binary(h, o.fs, p.name)
           located == o.result = "ok" /\ gb.found /\ gb.targets # {}
       IN {LET cs == create_shim(h, o.fs, r, t, file_stem(t.file))
               result == IF o.result # "ok" THEN o.result
                         ELSE IF ~located THEN "BinaryNotFound"
                         ELSE IF ~cs.ok THEN "ShimCreationError"
                         ELSE "ok"
           IN [result |-> result,
               fs |-> IF located THEN cs.fs ELSE o.fs,
               cache |-> o.cache,
               get |-> o.get, hit |-> o.hit, body |-> o.body,
               extracted |-> o.extracted, stored |-> o.stored,
               shim |-> IF result = "ok"
                        THEN ShimFile(h, file_stem(t.file)) ELSE <<>>,
               target |-> IF result = "ok" THEN t ELSE NoTarget,
               status |-> resp.status]
           : t \in (IF located THEN gb.targets ELSE {NoTarget})}
       : resp \in (IF hit THEN {NoResponse} ELSE Responses)}

\* one call of install_package(p, r/.frate)
Install(p, r) ==
  \E o \in install_package(host, fs, cache, p, r) :
    /\ fs' = o.fs
    /\ cache' = o.cache
    /\ last' = [op |-> "install", pkg |-> p, name |-> p.name, root |-> r,
                result |-> o.result, get |-> o.get, hit |-> o.hit,
                body |-> o.body, extracted |-> o.extracted,
                stored |-> o.stored, shim |-> o.shim, target |-> o.target,
                hadBin |-> fs[r].binExists /\ fs[r].bin[p.name].exists,
                hadShim |-> fs[r].shims # {},
                again |-> last.op = "install" /\ last.pkg = p /\ last.root = r,
                status |-> o.status]
    /\ UNCHANGED host
    /\ SyncUnchanged

\* the shim path uninstall_package removes: shims/{name}, or
\* shims/{name}.bat on Windows
UninstallShimPath(h, name) == IF IsWindows(h) THEN name \o <<"bat">> ELSE name

\* mutant: the binary directory is removed and recreated empty, as
\* uninstall_packages does with bin and shims
uninstall_package_recreate(h, f, name) ==
  LET f1 == [f EXCEPT !["cwd"].bin[name] = EmptyDir]
      shim_path == UninstallShimPath(h, name)
  IN IF shim_exists(h, f1, "cwd", shim_path)
     THEN [f1 EXCEPT !["cwd"].shims = {s \in @ : s.path # shim_path}]
     ELSE f1

\* the directories after uninstall_package(name): the binary directory is
\* removed first, then the shim if Path::exists finds it
uninstall_package(h, f, name) ==
  LET bin_exists == f["cwd"].binExists /\ f["cwd"].bin[name].exists
      f1 == IF bin_exists THEN [f EXCEPT !["cwd"].bin[name] = NoDirEntry] ELSE f
      shim_path == UninstallShimPath(h, name)
  IN IF shim_exists(h, f1, "cwd", shim_path)
     THEN [f1 EXCEPT !["cwd"].shims = {s \in @ : s.path # shim_path}]
     ELSE f1

Uninstall(name) ==
  /\ fs' = uninstall_package(host, fs, name)
  /\ last' = [Entry(last, "uninstall", name, "ok") EXCEPT
                !.hadBin = fs["cwd"].binExists /\ fs["cwd"].bin[name].exists,
                !.hadShim = UninstallShimPath(host, name) \in ShimPaths(fs, "cwd")]
  /\ UNCHANGED <<host, cache>>
  /\ SyncUnchanged

\* installer::uninstall_packages: remove_dir_all fails on a missing directory
UninstallAll ==
  LET f == fs["cwd"]
      emptied == [binExists |-> TRUE, shimsExists |-> TRUE,
                  bin |-> [n \in Names |-> NoDirEntry], shims |-> {}]
  IN /\ IF ~f.binExists
        THEN /\ fs' = fs
             /\ last' = Entry(last, "uninstall_all", <<>>, "FilesystemError")
        ELSE IF ~f.shimsExists
        THEN /\ fs' = [fs EXCEPT !["cwd"].binExists = FALSE,
                                 !["cwd"].bin = [n \in Names |-> NoDirEntry]]
             /\ last' = Entry(last, "uninstall_all", <<>>, "FilesystemError")
        ELSE /\ fs' = [fs EXCEPT !["cwd"] = emptied]
             /\ last' = Entry(last, "uninstall_all", <<>>, "ok")
     /\ UNCHANGED <<host, cache>>
     /\ SyncUnchanged

\* execute_init's ensure_frate_dirs(cwd)
EnsureDirs ==
  /\ fs' = ensure_frate_dirs(fs, "cwd")
  /\ last' = Entry(last, "init", <<>>, "ok")
  /\ UNCHANGED <<host, cache>>
  /\ SyncUnchanged

CleanCache ==
  /\ cache' = clean_cache(cache)
  /\ last' = Entry(last, "clean_cache", <<>>, "ok")
  /\ UNCHANGED <<host, fs>>
  /\ SyncUnchanged

\* a path's string contains the given name: some segment of it does
PathContains(path, name) == \E i \in 1..Len(path) : Contains(path[i], name)

EvictArgs == {<<"dl">>, <<"rg">>, <<"frate">>}

\* cache::remove_cached_archive(name): the walk starts at the cache root, and
\* remove_file of a directory is an error
Evict(name) ==
  /\ IF ~cache.exists
     THEN /\ cache' = cache
          /\ last' = Entry(last, "evict", name, "CacheDirMissing")
     ELSE IF PathContains(CacheDirPath, name)
     THEN /\ cache' = cache
          /\ last' = Entry(last, "evict", name, "FilesystemError")
     ELSE /\ cache' = [cache EXCEPT !.files =
                         [n \in CacheFileNames |->
                            IF Contains(n, name) THEN NoBytes ELSE @[n]]]
          /\ last' = Entry(last, "evict", name, "ok")
  /\ UNCHANGED <<host, fs>>
  /\ SyncUnchanged

(***************************************************************************)
(* The installer's specification                                           *)
(***************************************************************************)
NoSync == [ran |-> FALSE]
NoRes == [ran |-> FALSE]

Init ==
  /\ host \in {LinuxHost, WindowsHost}
  /\ cache \in {[exists |-> e, files |-> EmptyCacheFiles] : e \in BOOLEAN}
  /\ fs \in {[r \in Roots |-> IF r = "cwd" THEN c ELSE FreshRoot] :
               c \in {FreshRoot, InitRoot}}
  /\ last = NoOp
  /\ manifest = <<>>
  /\ lock = <<>>
  /\ lastSync = NoSync
  /\ res = NoRes
  /\ disk = NoFile
  /\ lastCall = NoCall
  /\ attempts = <<>>
  /\ procs = <<>>

Next ==
  \/ \E p \in Packages : Install(p, "cwd")
  \/ \E name \in Names : Uninstall(name)
  \/ UninstallAll
  \/ EnsureDirs
  \/ CleanCache
  \/ \E name \in EvictArgs : Evict(name)

Spec == Init /\ [][Next]_vars

(***************************************************************************)
(* Versions, target triples and the registry                               *)
(***************************************************************************)
V_plain == << <<"1", "42", "1">> >>
V_musl == << <<"1", "42", "1">>, <<"musl">> >>
V_gnu == << <<"1", "42", "1">>, <<"gnu">> >>

\* mutant: every host gets the fallback triple
current_target_triple_fallback(h) == << <<h.arch>>, <<"unknown">>, <<h.os>> >>

\* util::current_target_triple
current_target_triple(h) ==
  CASE h.arch = "x86_64" /\ h.os = "linux" ->
         << <<"x86_64">>, <<"unknown">>, <<"linux">>, <<"gnu">> >>
    [] h.arch = "x86" /\ h.os = "windows" ->
         << <<"i686">>, <<"pc">>, <<"windows">>, <<"msvc">> >>
    [] h.arch = "x86_64" /\ h.os = "windows" ->
         << <<"x86_64">>, <<"pc">>, <<"windows">>, <<"msvc">> >>
    [] h.arch = "aarch64" /\ h.os = "linux" ->
         << <<"aarch64">>, <<"unknown">>, <<"linux">>, <<"gnu">> >>
    [] h.arch = "aarch64" /\ h.os = "macos" ->
         << <<"aarch64">>, <<"apple">>, <<"darwin">> >>
    [] h.arch = "x86_64" /\ h.os = "macos" ->
         << <<"x86_64">>, <<"apple">>, <<"darwin">> >>
    [] OTHER -> << <<h.arch>>, <<"unknown">>, <<h.os>> >>

\* mutant: the version is returned as given, no triple appended
expand_version_bare(h, version) == version

\* util::expand_version: format!("{}-{}", version, triple)
expand_version(h, version) == version \o current_target_triple(h)

\* str::contains(marker) on a version key
str_contains(key, marker) ==
  \E i \in 1..Len(key) : \E j \in 1..Len(key[i]) : key[i][j] = marker

\* str::replace(from, to): every occurrence is replaced
str_replace(key, from, to) ==
  [i \in 1..Len(key) |->
     [j \in 1..Len(key[i]) |-> IF key[i][j] = from THEN to ELSE key[i][j]]]

\* the ReleaseInfo a registry document holds under a key; documents give
\* different keys different urls and hashes
ReleaseInfo(key) ==
  [url |-> << <<"https:">>, <<>>, <<"releases">> >> \o key \o << <<"a", "tar", "gz">> >>,
   hash |-> <<"sha256:">> \o key[Len(key)]]

\* what fetch_registry returns: a RegistryTool, or an error (ok = FALSE)
RegistryTool(name, keys) ==
  [ok |-> TRUE, name |-> name, releases |-> [k \in keys |-> ReleaseInfo(k)]]

FetchFailed == [ok |-> FALSE, name |-> <<>>, releases |-> <<>>]

Resolved(name, version, url, hash) ==
  [ok |-> TRUE, err |-> "", name |-> name, version |-> version,
   url |-> url, hash |-> hash]

ResolveError(err) ==
  [ok |-> FALSE, err |-> err, name |-> <<>>, version |-> <<>>,
   url |-> <<>>, hash |-> <<>>]

\* mutant: only the exact key is looked up
resolve_dependency_exact(h, tool, tool_name, version) ==
  LET full_version == expand_version(h, version)
  IN IF ~tool.ok THEN ResolveError("NotFound")
     ELSE IF full_version \in DOMAIN tool.releases
     THEN Resolved(tool.name, full_version,
                   tool.releases[full_version].url,
                   tool.releases[full_version].hash)
     ELSE ResolveError("VersionNotFound")

\* registry::resolve_dependency; tool is what fetch_registry(tool_name) gave
resolve_dependency(h, tool, tool_name, version) ==
  LET full_version == expand_version(h, version)
      gnu_version == str_replace(full_version, "musl", "gnu")
      musl_version == str_replace(full_version, "gnu", "musl")
      keys == DOMAIN tool.releases
      found(k) == Resolved(tool.name, full_version,
                           tool.releases[k].url, tool.releases[k].hash)
  IN IF ~tool.ok THEN ResolveError("NotFound")
     ELSE IF full_version \in keys THEN found(full_version)
     ELSE IF str_contains(full_version, "musl")
     THEN (IF gnu_version \in keys THEN found(gnu_version)
           ELSE ResolveError("VersionNotFound"))
     ELSE IF str_contains(full_version, "gnu")
     THEN (IF musl_version \in keys THEN found(musl_version)
           ELSE ResolveError("VersionNotFound"))
     ELSE ResolveError("VersionNotFound")

(***************************************************************************)
(* Lockfile sync                                                           *)
(***************************************************************************)
RECURSIVE sync_from(_, _, _, _, _)
\* the loop of FrateLock::sync over the dependencies still to visit
sync_from(h, toml, order, docs, packages) ==
  IF order = <<>> THEN packages
  ELSE LET name == Head(order)
           resolved == resolve_dependency(h, docs[name], name, toml[name])
           locked == LockedPackage(resolved.name, resolved.version,
                                   resolved.url, resolved.hash)
       IN IF ~resolved.ok
          THEN sync_from(h, toml, Tail(order), docs, packages)
          ELSE IF \E i \in 1..Len(packages) : packages[i].name = locked.name
          THEN sync_from(h, toml, Tail(order), docs, packages)
          ELSE sync_from(h, toml, Tail(order), docs, Append(packages, locked))

RECURSIVE sync_append_all(_, _, _, _, _)
\* the loop without the test for a package of the same name
sync_append_all(h, toml, order, docs, packages) ==
  IF order = <<>> THEN packages
  ELSE LET name == Head(order)
           resolved == resolve_dependency(h, docs[name], name, toml[name])
           locked == LockedPackage(resolved.name, resolved.version,
                                   resolved.url, resolved.hash)
       IN IF ~resolved.ok
          THEN sync_append_all(h, toml, Tail(order), docs, packages)
          ELSE sync_append_all(h, toml, Tail(order), docs, Append(packages, locked))

\* mutant: every resolved package is appended, also under a name already there
sync_no_dedup(h, toml, order, docs, packages) ==
  sync_append_all(h, toml, order, docs, <<>>)

\* FrateLock::sync: packages.clear(), then the loop; order is the HashMap's
\* iteration order
sync(h, toml, order, docs, packages) ==
  sync_from(h, toml, order, docs, <<>>)

(***************************************************************************)
(* The resolver's and the lockfile's specifications                        *)
(***************************************************************************)
MaxDeps == 2

N_fd == <<"fd">>
ToolList == <<N_just, N_rg, N_fd>>
ToolNames == {ToolList[i] : i \in 1..MaxDeps}
Versions == {V_plain, V_musl, V_gnu}
Hosts == {LinuxHost, WindowsHost, OtherHost}

\* the version requirement the manifests give each tool
VersionOf(tool) == IF tool = N_rg THEN V_musl ELSE V_plain

\* a release key of another version, never the one asked for
K_other == << <<"0", "9", "0">>, <<"any">> >>

\* the keys a registry document may hold when version is asked for on h
KeyUniverse(h, version) ==
  {expand_version(h, version),
   str_replace(expand_version(h, version), "musl", "gnu"),
   str_replace(expand_version(h, version), "gnu", "musl"),
   K_other}

\* registry documents fetch_registry may return to resolve_dependency
ResolveDocs(h, tool_name, version) ==
  {FetchFailed} \cup
  {RegistryTool(n, ks) : n \in {tool_name, N_rg},
                         ks \in SUBSET KeyUniverse(h, version)}

\* registry documents fetch_registry may return during a sync
SyncDocs(h, tool_name, version) ==
  LET full_version == expand_version(h, version)
      musl_version == str_replace(full_version, "gnu", "musl")
  IN << FetchFailed,
        RegistryTool(tool_name, {K_other}),
        RegistryTool(tool_name, {full_version}),
        RegistryTool(tool_name, {musl_version}),
        RegistryTool(N_rg, {full_version}),
        RegistryTool(N_rg, {musl_version}) >>

\* the orders in which a HashMap with these keys may be iterated
Orders(S) ==
  {o \in [1..Cardinality(S) -> S] :
     \A i, j \in 1..Cardinality(S) : o[i] = o[j] => i = j}

InstallerUnchanged ==
  UNCHANGED <<host, cache, fs, last, disk, lastCall, attempts, procs>>

\* one call of resolve_dependency(tool_name, version)
Resolve(tool_name, version, tool) ==
  /\ res' = [ran |-> TRUE, tool_name |-> tool_name, version |-> version,
             tool |-> tool,
             out |-> resolve_dependency(host, tool, tool_name, version)]
  /\ InstallerUnchanged
  /\ UNCHANGED <<manifest, lock, lastSync>>

\* execute_sync: one run loads the lockfile and calls lock.sync(&toml) once
Sync(order, docs) ==
  /\ lock' = sync(host, manifest, order, docs, lock)
  /\ lastSync' = [ran |-> TRUE, result |-> "ok", order |-> order,
                  prior |-> lock,
                  resolved |-> [d \in DOMAIN manifest |->
                     resolve_dependency(host, docs[d], d, manifest[d])]]
  /\ InstallerUnchanged
  /\ UNCHANGED <<manifest, res>>

\* packages of an earlier lockfile: of a tool no longer in the manifest, and
\* of a tool of the manifest at another version
P_stale == LockedPackage(<<"old">>, V_plain, U_just, <<"0a">>)
P_old ==
  LockedPackage(N_just, K_other, ReleaseInfo(K_other).url, ReleaseInfo(K_other).hash)

InitOther ==
  /\ host \in Hosts
  /\ cache = [exists |-> FALSE, files |-> EmptyCacheFiles]
  /\ fs = [r \in Roots |-> FreshRoot]
  /\ last = NoOp
  /\ lastSync = NoSync
  /\ res = NoRes
  /\ disk = NoFile
  /\ lastCall = NoCall
  /\ attempts = <<>>
  /\ procs = <<>>

InitResolve ==
  /\ InitOther
  /\ manifest = <<>>
  /\ lock = <<>>

NextResolve ==
  \E tool_name \in ToolNames, version \in Versions :
    \E tool \in ResolveDocs(host, tool_name, version) :
      Resolve(tool_name, version, tool)

SpecResolve == InitResolve /\ [][NextResolve]_vars

InitSync ==
  /\ InitOther
  /\ manifest \in {[t \in D |-> VersionOf(t)] : D \in SUBSET ToolNames}
  /\ lock \in {<<>>, <<P_stale>>, <<P_old, P_stale>>}

\* one run of execute_sync over the lockfile it loaded
NextSync ==
  /\ ~lastSync.ran
  /\ \E pick \in [DOMAIN manifest -> 1..6] :
       \E docs \in {[t \in DOMAIN manifest |->
                       SyncDocs(host, t, manifest[t])[pick[t]]]} :
         \E order \in Orders(DOMAIN manifest) :
           Sync(order, docs)

SpecSync == InitSync /\ [][NextSync]_vars

(***************************************************************************)
(* The specification of expand_version                                     *)
(***************************************************************************)
Archs == {"x86_64", "x86", "aarch64", "riscv64"}
OSes == {"linux", "windows", "macos", "freebsd"}
AllHosts == {[arch |-> a, os |-> o] : a \in Archs, o \in OSes}

\* version strings as a caller may pass them: "1.2", "not-a-version", ""
V_short == << <<"1", "2">> >>
V_text == << <<"not">>, <<"a">>, <<"version">> >>
V_empty == << <<"">> >>
AnyVersions == Versions \cup {V_short, V_text, V_empty}

\* one call of expand_version(version)
Expand(version) ==
  /\ res' = [ran |-> TRUE, version |-> version,
             out |-> expand_version(host, version)]
  /\ InstallerUnchanged
  /\ UNCHANGED <<manifest, lock, lastSync>>

InitExpand ==
  /\ host \in AllHosts
  /\ cache = [exists |-> FALSE, files |-> EmptyCacheFiles]
  /\ fs = [r \in Roots |-> FreshRoot]
  /\ last = NoOp
  /\ lastSync = NoSync
  /\ res = NoRes
  /\ disk = NoFile
  /\ lastCall = NoCall
  /\ attempts = <<>>
  /\ procs = <<>>
  /\ manifest = <<>>
  /\ lock = <<>>

NextExpand == \E version \in AnyVersions : Expand(version)

SpecExpand == InitExpand /\ [][NextExpand]_vars

(***************************************************************************)
(* The lockfile document: FrateLock::save and FrateLock::load_or_default   *)
(*                                                                         *)
(* A TOML document is the sequence of its items.  An item is a             *)
(* "[[packages]]" table with its key/value pairs, the pair "packages = []",*)
(* or a line that is not TOML.  A value carries its TOML type.             *)
(***************************************************************************)
MaxPkgs == 2

TomlString(text) == [type |-> "string", text |-> text]

\* a [[packages]] table with the given key/value pairs
PackagesTable(pairs) == [kind |-> "table", pairs |-> pairs]

\* the pair packages = []
EmptyPackagesArray == [kind |-> "empty_array", pairs |-> <<>>]

\* a line that is not TOML
NotToml == [kind |-> "text", pairs |-> <<>>]

RECURSIVE to_string_pretty(_)
\* toml::to_string_pretty(&FrateLock): an empty Vec is written as an empty
\* array, a package as a table of its four strings
to_string_pretty(packages) ==
  IF packages = <<>> THEN <<EmptyPackagesArray>>
  ELSE LET p == Head(packages)
           table == PackagesTable([name |-> TomlString(p.name),
                                   version |-> TomlString(p.version),
                                   source |-> TomlString(p.source),
                                   hash |-> TomlString(p.hash)])
       IN IF Tail(packages) = <<>> THEN <<table>>
          ELSE <<table>> \o to_string_pretty(Tail(packages))

\* a table deserializes into a LockedPackage: its four fields are there and
\* are strings (other keys are ignored)
IsPackageTable(item) ==
  /\ item.kind = "table"
  /\ {"name", "version", "source", "hash"} \subseteq DOMAIN item.pairs
  /\ \A k \in {"name", "version", "source", "hash"} :
       item.pairs[k].type = "string"

\* mutant: items that are not package tables are passed over
from_str_tables_only(content) ==
  LET tables == SelectSeq(content, IsPackageTable)
  IN [ok |-> TRUE,
      packages |-> [i \in 1..Len(tables) |->
                      LockedPackage(tables[i].pairs.name.text,
                                    tables[i].pairs.version.text,
                                    tables[i].pairs.source.text,
                                    tables[i].pairs.hash.text)]]

\* toml::from_str::<FrateLock>(content): [ok, packages]
from_str(content) ==
  IF content = <<EmptyPackagesArray>> THEN [ok |-> TRUE, packages |-> <<>>]
  ELSE IF content # <<>> /\ \A i \in 1..Len(content) : IsPackageTable(content[i])
  THEN [ok |-> TRUE,
        packages |-> [i \in 1..Len(content) |->
                        LockedPackage(content[i].pairs.name.text,
                                      content[i].pairs.version.text,
                                      content[i].pairs.source.text,
                                      content[i].pairs.hash.text)]]
  ELSE [ok |-> FALSE, packages |-> <<>>]

\* FrateLock::load_or_default(path): a path that exists and cannot be read as
\* a string gives "", which is not a lockfile document
load_or_default(d) ==
  IF d.kind # "missing"
  THEN LET content == IF d.kind = "file" THEN d.content ELSE <<>>
           parsed == from_str(content)
       IN IF parsed.ok THEN parsed.packages ELSE <<>>
  ELSE <<>>

\* mutant: the document is appended to what the file holds
save_append(packages, d) ==
  IF d.kind = "dir" THEN [ok |-> FALSE, disk |-> d]
  ELSE [ok |-> TRUE,
        disk |-> [kind |-> "file",
                  content |-> d.content \o to_string_pretty(packages)]]

\* FrateLock::save(path): [ok, disk]; the file is created when missing, then
\* written; a path that is a directory cannot be written
save(packages, d) ==
  IF d.kind = "dir" THEN [ok |-> FALSE, disk |-> d]
  ELSE [ok |-> TRUE,
        disk |-> [kind |-> "file", content |-> to_string_pretty(packages)]]

\* the lockfiles a program may hold: up to MaxPkgs packages
Lockfiles ==
  UNION {[1..n -> {P_just, P_just2, P_rg}] : n \in 0..MaxPkgs}

\* a table whose hash is missing, and one whose version is not a string
TableWithoutHash ==
  PackagesTable([name |-> TomlString(N_just),
                 version |-> TomlString(<< <<"v1">> >>),
                 source |-> TomlString(U_just)])

TableWithInteger ==
  PackagesTable([name |-> TomlString(N_just),
                 version |-> [type |-> "integer", text |-> << <<"1">> >>],
                 source |-> TomlString(U_just),
                 hash |-> TomlString(<<"0a">>)])

\* a table with one more key than a LockedPackage has
TableWithExtraKey ==
  PackagesTable([name |-> TomlString(N_rg),
                 version |-> TomlString(<< <<"v1">> >>),
                 source |-> TomlString(U_rg),
                 hash |-> TomlString(<<"0b">>),
                 note |-> TomlString(<<"x">>)])

\* what may be at the path of frate.lock: nothing, a directory, or a file
\* whose content somebody wrote; stores is the list of packages a valid
\* document holds
OtherFiles ==
  { [disk |-> NoFile, valid |-> FALSE, stores |-> <<>>],
    [disk |-> [kind |-> "dir", content |-> <<>>], valid |-> FALSE, stores |-> <<>>],
    [disk |-> [kind |-> "file", content |-> <<>>], valid |-> FALSE, stores |-> <<>>],
    [disk |-> [kind |-> "file", content |-> <<NotToml>>],
     valid |-> FALSE, stores |-> <<>>],
    [disk |-> [kind |-> "file", content |-> <<TableWithoutHash>>],
     valid |-> FALSE, stores |-> <<>>],
    [disk |-> [kind |-> "file", content |-> <<TableWithInteger>>],
     valid |-> FALSE, stores |-> <<>>],
    [disk |-> [kind |-> "file",
               content |-> <<EmptyPackagesArray>> \o to_string_pretty(<<P_rg>>)],
     valid |-> FALSE, stores |-> <<>>],
    [disk |-> [kind |-> "file", content |-> <<EmptyPackagesArray>>],
     valid |-> TRUE, stores |-> <<>>],
    [disk |-> [kind |-> "file", content |-> <<TableWithExtraKey>>],
     valid |-> TRUE, stores |-> <<P_rg>>] }

Call(op, result) ==
  [NoCall EXCEPT !.op = op, !.result = result]

LockUnchanged ==
  UNCHANGED <<host, cache, fs, last, manifest, lastSync, res, attempts, procs>>

\* lock.save(path)
Save ==
  /\ \E s \in {save(lock, disk)} :
       /\ disk' = s.disk
       /\ lastCall' = [Call("save", IF s.ok THEN "ok" ELSE "FilesystemError")
                         EXCEPT !.existed = (disk.kind # "missing")]
  /\ UNCHANGED lock
  /\ LockUnchanged

\* lock = FrateLock::load_or_default(path)
Load ==
  /\ lock' = load_or_default(disk)
  /\ lastCall' = [Call("load", "ok") EXCEPT
                    !.existed = lastCall.existed,
                    !.afterSave = (lastCall.op = "save" /\ lastCall.result = "ok")]
  /\ UNCHANGED disk
  /\ LockUnchanged

\* another program puts something at the path
WriteFile(f) ==
  /\ disk' = f.disk
  /\ lastCall' = Call("write", "ok")
  /\ UNCHANGED lock
  /\ LockUnchanged

\* the program holds another lockfile (a sync, or an edit)
SetLock(packages) ==
  /\ lock' = packages
  /\ lastCall' = Call("set", "ok")
  /\ UNCHANGED disk
  /\ LockUnchanged

InitLock ==
  /\ host = LinuxHost
  /\ cache = [exists |-> FALSE, files |-> EmptyCacheFiles]
  /\ fs = [r \in Roots |-> FreshRoot]
  /\ last = NoOp
  /\ lastSync = NoSync
  /\ res = NoRes
  /\ manifest = <<>>
  /\ lock \in Lockfiles
  /\ disk \in {f.disk : f \in OtherFiles}
  /\ lastCall = NoCall
  /\ attempts = <<>>
  /\ procs = <<>>

NextLock ==
  \/ Save
  \/ Load
  \/ \E f \in OtherFiles : WriteFile(f)
  \/ \E packages \in Lockfiles : SetLock(packages)

SpecLock == InitLock /\ [][NextLock]_vars

(***************************************************************************)
(* Claims about the installer                                              *)
(***************************************************************************)
\* the expected digest of a package: its hash without an optional "sha256:"
ExpectedDigest(hash) ==
  IF hash # <<>> /\ hash[1] = "sha256:" THEN SubSeq(hash, 2, Len(hash)) ELSE hash

DestFiles(f, l) == f[l.root].bin[l.name].files

SupportedSuffix(url) == ends_with_zip(url) \/ ends_with_tar_gz(url)

\* C1: a downloaded body whose SHA-256 differs from the package's hash (the
\* "sha256:" prefix stripped) makes install fail with an integrity error, and
\* its bytes are neither extracted into the destination nor written to the
\* cache; every cache entry an install writes, and every extraction from a
\* download, uses bytes whose digest is the expected one.
C1_MismatchedDownloadRejected ==
  [][ (last'.op = "install") =>
        /\ (last'.get /\ last'.body # NoBytes
              /\ Sha256Hex(last'.body) # ExpectedDigest(last'.pkg.hash))
           => /\ last'.result = "IntegrityError"
              /\ cache' = cache
              /\ DestFiles(fs', last') = DestFiles(fs, last')
              /\ last'.extracted = NoBytes
              /\ ~last'.stored
        /\ \A n \in CacheFileNames :
             cache'.files[n] # cache.files[n]
             => /\ n = FileNameOf(last'.pkg.source)
                /\ Sha256Hex(cache'.files[n]) = ExpectedDigest(last'.pkg.hash)
        /\ (last'.get /\ last'.extracted # NoBytes)
           => Sha256Hex(last'.extracted) = ExpectedDigest(last'.pkg.hash) ]_vars

C1_Witness ==
  /\ last.op = "install" /\ last.get /\ last.body # NoBytes
  /\ Sha256Hex(last.body) # ExpectedDigest(last.pkg.hash)
  /\ last.result = "IntegrityError"

\* C2: when the cache holds an entry for the package's source whose SHA-256
\* differs from the package's hash, install fails with an integrity error,
\* extracts nothing, makes no download and leaves the cache as it was; a
\* cache entry changes or disappears only by evict or clear_all, so later
\* installs of the package keep failing until then.
C2_CorruptCacheEntryIsFatalAndKept ==
  [][ /\ (/\ last'.op = "install"
          /\ get_cached_archive(cache, last'.pkg.source)
          /\ Sha256Hex(cache.files[FileNameOf(last'.pkg.source)])
               # ExpectedDigest(last'.pkg.hash))
         => /\ last'.result = "IntegrityError"
            /\ ~last'.get
            /\ last'.extracted = NoBytes
            /\ DestFiles(fs', last') = DestFiles(fs, last')
            /\ cache' = cache
      /\ \A n \in CacheFileNames :
           (cache.exists /\ cache.files[n] # NoBytes
              /\ cache'.files[n] # cache.files[n])
           => last'.op \in {"evict", "clean_cache"} ]_vars

C2_Witness ==
  /\ last.op = "install" /\ last.hit /\ last.again
  /\ Sha256Hex(cache.files[FileNameOf(last.pkg.source)])
       # ExpectedDigest(last.pkg.hash)
  /\ last.result = "IntegrityError"

\* C3 (as claimed): an install that fails on a hash mismatch neither creates
\* nor modifies the destination directory bin/{name}.
C3_FailedInstallLeavesDestination ==
  [][ (last'.op = "install" /\ last'.result = "IntegrityError")
      => fs'[last'.root].bin[last'.name] = fs[last'.root].bin[last'.name] ]_vars

\* C4 (as claimed): installing again a package that was just installed
\* successfully succeeds and leaves the same directories and shim.
C4_ReinstallSucceeds ==
  [][ (/\ last.op = "install" /\ last.result = "ok"
       /\ last'.op = "install" /\ last'.pkg = last.pkg /\ last'.root = last.root)
      => (last'.result = "ok" /\ fs' = fs) ]_vars

\* C5 (as claimed): for a source URL ending in neither ".zip" nor ".tar.gz"
\* install fails with an unsupported-archive-type error without any HTTP GET,
\* extraction or cache write.
C5_UnsupportedFailsBeforeNetwork ==
  (last.op = "install" /\ ~SupportedSuffix(last.pkg.source))
  => /\ last.result = "UnsupportedArchiveType"
     /\ ~last.get
     /\ last.extracted = NoBytes
     /\ ~last.stored

\* C9 (as claimed): after a successful install of P, a successful
\* uninstall(P.name) leaves neither bin/{name} nor the shim the install created.
C9_UninstallRemovesInstall ==
  [][ (/\ last.op = "install" /\ last.result = "ok" /\ last.root = "cwd"
       /\ last'.op = "uninstall" /\ last'.name = last.name
       /\ last'.result = "ok")
      => /\ ~fs'["cwd"].bin[last.name].exists
         /\ last.shim \notin ShimPaths(fs', "cwd") ]_vars

\* C10: uninstall(name) of a package that was never installed (no bin/{name}
\* and no shim) succeeds and changes nothing; uninstall(name) twice in a row
\* succeeds both times and the second call changes nothing.
C10_UninstallIdempotent ==
  [][ (last'.op = "uninstall") =>
        /\ last'.result = "ok"
        /\ (/\ ~(fs["cwd"].binExists /\ fs["cwd"].bin[last'.name].exists)
            /\ UninstallShimPath(host, last'.name) \notin ShimPaths(fs, "cwd"))
           => (fs' = fs /\ cache' = cache)
        /\ (last.op = "uninstall" /\ last.name = last'.name)
           => (fs' = fs /\ cache' = cache) ]_vars

C10_Witness ==
  /\ last.op = "uninstall" /\ last.result = "ok"
  /\ last.again
  /\ ~last.hadBin /\ ~last.hadShim
  /\ fs["cwd"].shims # {}
(***************************************************************************)
(* Claims about the resolver and the lockfile                              *)
(***************************************************************************)
\* the package a successful resolution is locked as
LockedOf(r) == LockedPackage(r.name, r.version, r.url, r.hash)

\* the dependencies of the manifest whose resolution succeeded in the last sync
ResolvedDeps == {d \in DOMAIN manifest : lastSync.resolved[d].ok}

\* C6: after a sync, which always returns success, the lockfile holds exactly
\* one package for each manifest dependency whose resolution succeeded, no
\* package for a dependency whose resolution failed, and no package of the
\* previous lockfile.
C6_SyncLocksEachResolvedDependency ==
  lastSync.ran =>
    /\ lastSync.result = "ok"
    /\ Len(lock) = Cardinality(ResolvedDeps)
    /\ \A d \in ResolvedDeps :
         Cardinality({i \in 1..Len(lock) :
                        lock[i] = LockedOf(lastSync.resolved[d])}) = 1
    /\ \A i \in 1..Len(lock) :
         \E d \in ResolvedDeps : lock[i] = LockedOf(lastSync.resolved[d])
    /\ \A i \in 1..Len(lock) :
         \A j \in 1..Len(lastSync.prior) : lock[i] # lastSync.prior[j]

\* the key with every occurrence of one libc marker turned into the other
Swapped(key, from, to) ==
  [i \in 1..Len(key) |->
     [j \in 1..Len(key[i]) |-> IF key[i][j] = from THEN to ELSE key[i][j]]]

HasMarker(key, marker) ==
  \E i \in 1..Len(key) : \E j \in 1..Len(key[i]) : key[i][j] = marker

\* the key resolve tries first: v + '-' + target_triple
FirstKey == res.version \o current_target_triple(host)

\* the one key resolve tries second; FirstKey itself when there is none
SecondKey ==
  IF HasMarker(FirstKey, "musl") THEN Swapped(FirstKey, "musl", "gnu")
  ELSE IF HasMarker(FirstKey, "gnu") THEN Swapped(FirstKey, "gnu", "musl")
  ELSE FirstKey

\* what the claim says about a resolution whose keys are tried in the order
\* first, then each key of second
ResolvesBy(first, second) ==
  LET keys == DOMAIN res.tool.releases
      hit(k) == /\ res.out.url = res.tool.releases[k].url
                /\ res.out.hash = res.tool.releases[k].hash
  IN /\ res.out.ok <=> (first \in keys \/ second \cap keys # {})
     /\ (res.out.ok /\ first \in keys) => hit(first)
     /\ (res.out.ok /\ first \notin keys) => \E k \in second \cap keys : hit(k)
     /\ ~res.out.ok => res.out.err = "VersionNotFound"

HasSuffix(s, t) ==
  Len(s) >= Len(t) /\ SubSeq(s, Len(s) - Len(t) + 1, Len(s)) = t

\* C8 (as stated): the version a package is locked with has no platform
\* suffix: it does not end with the host's target triple.
C8_LockedVersionHasNoTriple ==
  lastSync.ran =>
    \A i \in 1..Len(lock) :
      ~HasSuffix(lock[i].version, current_target_triple(host))

\* C8 (amended): the version a package is locked with is the key resolve
\* tried first: the version requirement of the dependency it was resolved
\* from, then '-', then the host's target triple.
C8_LockedVersionIsFirstKey ==
  lastSync.ran =>
    \A i \in 1..Len(lock) :
      \E d \in ResolvedDeps :
        /\ lock[i].name = lastSync.resolved[d].name
        /\ lock[i].source = lastSync.resolved[d].url
        /\ lock[i].version = manifest[d] \o current_target_triple(host)

\* a sync that locked a package found under the swapped key
C8_Witness ==
  /\ lastSync.ran /\ Len(lock) >= 1
  /\ \E d \in ResolvedDeps :
       /\ lock[1] = LockedOf(lastSync.resolved[d])
       /\ lock[1].source # ReleaseInfo(lock[1].version).url

(***************************************************************************)
(* Claims about uninstall-all and eviction                                 *)
(***************************************************************************)
\* C11: uninstall_all returns success from every state of the project
\* directory, also when bin or shims does not exist, and leaves both
\* directories existing and empty.
C11_UninstallAllTotal ==
  last.op = "uninstall_all" =>
    /\ last.result = "ok"
    /\ fs["cwd"].binExists /\ fs["cwd"].shimsExists
    /\ \A n \in Names : ~fs["cwd"].bin[n].exists
    /\ fs["cwd"].shims = {}

\* C13: evict(s) returns success, removes every cache file whose name
\* contains s and leaves every other cache file untouched, for every s and
\* every content of an existing cache directory.
C13_EvictRemovesMatchingFiles ==
  [][ (last'.op = "evict" /\ cache.exists) =>
        /\ last'.result = "ok"
        /\ \A n \in CacheFileNames :
             cache'.files[n] = IF Contains(n, last'.name) THEN NoBytes
                               ELSE cache.files[n] ]_vars

(***************************************************************************)
(* More claims about the lockfile sync                                     *)
(***************************************************************************)
\* the positions in the iteration order of the dependencies that resolved to
\* the package name n
ResolvedAs(n) ==
  {i \in 1..Len(lastSync.order) :
     /\ lastSync.resolved[lastSync.order[i]].ok
     /\ lastSync.resolved[lastSync.order[i]].name = n}

\* C14: after a sync no two packages of the lockfile have the same name; of
\* the dependencies that resolve to one name, the first in iteration order is
\* the one locked and the later ones are skipped.
C14_LockedNamesUnique ==
  lastSync.ran =>
    /\ \A i, j \in 1..Len(lock) : lock[i].name = lock[j].name => i = j
    /\ \A d \in ResolvedDeps :
         LET n == lastSync.resolved[d].name
             first == CHOOSE i \in ResolvedAs(n) : \A j \in ResolvedAs(n) : i <= j
         IN \E k \in 1..Len(lock) :
              /\ lock[k].name = n
              /\ lock[k] = LockedOf(lastSync.resolved[lastSync.order[first]])

\* a sync in which two dependencies resolved to the same name and one package,
\* the first one's, was locked
C14_Witness ==
  /\ lastSync.ran /\ Len(lock) = 1
  /\ Cardinality(ResolvedAs(lock[1].name)) = 2
  /\ lock[1] = LockedOf(lastSync.resolved[lastSync.order[1]])
  /\ lock[1] # LockedOf(lastSync.resolved[lastSync.order[2]])

(***************************************************************************)
(* Claims about expand_version                                             *)
(***************************************************************************)
\* the fixed table: (arch, os, target triple)
TripleTable ==
  { <<"x86_64", "linux", << <<"x86_64">>, <<"unknown">>, <<"linux">>, <<"gnu">> >> >>,
    <<"aarch64", "linux", << <<"aarch64">>, <<"unknown">>, <<"linux">>, <<"gnu">> >> >>,
    <<"x86", "windows", << <<"i686">>, <<"pc">>, <<"windows">>, <<"msvc">> >> >>,
    <<"x86_64", "windows", << <<"x86_64">>, <<"pc">>, <<"windows">>, <<"msvc">> >> >>,
    <<"aarch64", "macos", << <<"aarch64">>, <<"apple">>, <<"darwin">> >> >>,
    <<"x86_64", "macos", << <<"x86_64">>, <<"apple">>, <<"darwin">> >> >> }

TableRows(h) == {row \in TripleTable : row[1] = h.arch /\ row[2] = h.os}

\* the triple the table gives the host, '{arch}-unknown-{os}' without a row
TableTriple(h) ==
  IF TableRows(h) # {}
  THEN (CHOOSE row \in TableRows(h) : TRUE)[3]
  ELSE << <<h.arch>>, <<"unknown">>, <<h.os>> >>

\* C15: expand_version(v) is v, '-', and the triple the fixed table gives the
\* host's (arch, os), '{arch}-unknown-{os}' for a pair without a row; two
\* calls on the same host append the same triple.
C15_ExpandVersionAppendsTriple ==
  [][ res'.ran =>
        /\ res'.out = res'.version \o TableTriple(host)
        /\ res.ran =>
             SubSeq(res'.out, Len(res'.version) + 1, Len(res'.out))
               = SubSeq(res.out, Len(res.version) + 1, Len(res.out)) ]_vars

\* a call with a suffixed version on a host whose triple has three pieces: a
\* row of the table (aarch64 macos) or the fallback
C15_Witness ==
  /\ res.ran /\ res.version = V_musl
  /\ host \in {[arch |-> "aarch64", os |-> "macos"],
               [arch |-> "riscv64", os |-> "linux"]}
  /\ Len(res.out) = Len(res.version) + 3

(***************************************************************************)
(* Claims about the result of sync                                         *)
(***************************************************************************)
\* C19: sync returns an error when the manifest has dependencies and the
\* resolution of every one of them fails.
C19_SyncFailsWhenNothingResolves ==
  (lastSync.ran /\ DOMAIN manifest # {} /\ ResolvedDeps = {}) =>
    lastSync.result # "ok"

(***************************************************************************)
(* Claims about the lockfile on disk                                       *)
(***************************************************************************)
\* C12: a load_or_default that follows a successful save of the lockfile L
\* yields the package records of L, in a new file and over an existing one,
\* with and without packages.
C12_SaveLoadRoundTrip ==
  [][ (lastCall.op = "save" /\ lastCall.result = "ok" /\ lastCall'.op = "load")
        => lock' = lock ]_vars

\* a load after a save, over an existing file, of a lockfile with two packages
C12_Witness ==
  /\ lastCall.op = "load" /\ lastCall.afterSave /\ lastCall.existed
  /\ Len(lock) = 2 /\ lock[1] # lock[2]
  /\ disk.kind = "file"

\* C18: load_or_default never fails; it yields no packages when nothing is at
\* the path, when the path cannot be read and when the content is not a valid
\* lockfile document, and the stored packages of a valid document.
C18_LoadOrDefaultTotal ==
  lastCall.op = "load" =>
    /\ lastCall.result = "ok"
    /\ \A f \in OtherFiles :
         f.disk = disk => lock = (IF f.valid THEN f.stores ELSE <<>>)

\* a load of a file that holds a package table after an empty array
C18_Witness ==
  /\ lastCall.op = "load" /\ lock = <<>>
  /\ disk.kind = "file" /\ Len(disk.content) = 2
  /\ disk.content[1] = EmptyPackagesArray

(***************************************************************************)
(* The manifest: FrateToml::add, FrateToml::remove and is_valid_version    *)
(***************************************************************************)
Digits == {"0", "1", "2", "3", "4", "5", "6", "7", "8", "9"}
Letters == {"a", "b", "c", "d", "e", "f", "g", "h", "i", "j", "k", "l", "m",
            "n", "o", "p", "q", "r", "s", "t", "u", "v", "w", "x", "y", "z"}

RECURSIVE split(_, _)
\* str::split(sep) on a sequence of characters
split(chars, sep) ==
  IF \A i \in 1..Len(chars) : chars[i] # sep THEN <<chars>>
  ELSE LET i == CHOOSE j \in 1..Len(chars) :
                  /\ chars[j] = sep
                  /\ \A k \in 1..(j - 1) : chars[k] # sep
       IN <<SubSeq(chars, 1, i - 1)>>
            \o split(SubSeq(chars, i + 1, Len(chars)), sep)

\* a numeric identifier of a version: digits, no leading zero
is_numeric_identifier(chars) ==
  /\ chars # <<>>
  /\ \A i \in 1..Len(chars) : chars[i] \in Digits
  /\ Len(chars) > 1 => chars[1] # "0"

\* an identifier of build metadata: letters and digits
is_build_identifier(chars) ==
  /\ chars # <<>>
  /\ \A i \in 1..Len(chars) : chars[i] \in Digits \cup Letters

\* Version::parse(text).is_ok() for a text without '-': three numeric
\* identifiers joined by '.', then optionally '+' and build metadata
Version_parse_is_ok(chars) ==
  LET cut == split(chars, "+")
      core == split(cut[1], ".")
  IN /\ Len(core) = 3
     /\ \A i \in 1..3 : is_numeric_identifier(core[i])
     /\ Len(cut) <= 2
     /\ Len(cut) = 2 =>
          \A b \in SeqToSet(split(cut[2], ".")) : is_build_identifier(b)

\* mutant: every version string passes
is_valid_version_any(version) == TRUE

\* is_valid_version(version): the text before the first '-' parses
is_valid_version(version) == Version_parse_is_ok(NameChars(version[1]))

\* HashMap::insert on the dependency map
insert(dependencies, name, version) ==
  [n \in DOMAIN dependencies \cup {name} |->
     IF n = name THEN version ELSE dependencies[n]]

\* mutant: an existing dependency is overwritten
add_overwrite(dependencies, name, version) ==
  IF ~is_valid_version(version)
  THEN [ok |-> FALSE, dependencies |-> dependencies]
  ELSE [ok |-> TRUE, dependencies |-> insert(dependencies, name, version)]

\* FrateToml::add(name, version): [ok, dependencies]
add(dependencies, name, version) ==
  IF ~is_valid_version(version)
  THEN [ok |-> FALSE, dependencies |-> dependencies]
  ELSE IF name \in DOMAIN dependencies
  THEN [ok |-> FALSE, dependencies |-> dependencies]
  ELSE [ok |-> TRUE, dependencies |-> insert(dependencies, name, version)]

\* FrateToml::remove(name)
remove(dependencies, name) ==
  [n \in DOMAIN dependencies \ {name} |-> dependencies[n]]

\* version strings passed to add: "1.42.1+b7", "1.42.1-", "01.42.1", "1.2.3.4"
V_build == << <<"1", "42", "1+b7">> >>
V_dash == << <<"1", "42", "1">>, <<"">> >>
V_lead == << <<"01", "42", "1">> >>
V_long == << <<"1", "2", "3", "4">> >>
AddVersions ==
  {V_plain, V_musl, V_build, V_dash, V_short, V_text, V_empty, V_lead, V_long}

ManifestUnchanged ==
  UNCHANGED
    <<host, cache, fs, last, lock, lastSync, res, disk, attempts, procs>>

\* one call of manifest.add(name, version)
Add(name, version) ==
  /\ \E r \in {add(manifest, name, version)} :
       /\ manifest' = r.dependencies
       /\ lastCall' = [op |-> "add",
                       result |-> IF r.ok THEN "ok" ELSE "err",
                       name |-> name, version |-> version,
                       existed |-> name \in DOMAIN manifest,
                       afterSave |-> FALSE]
  /\ ManifestUnchanged

\* one call of manifest.remove(name)
Remove(name) ==
  /\ manifest' = remove(manifest, name)
  /\ lastCall' = [op |-> "remove", result |-> "ok",
                  name |-> name, version |-> <<>>,
                  existed |-> name \in DOMAIN manifest,
                  afterSave |-> FALSE]
  /\ ManifestUnchanged

\* FrateToml::default: no dependencies
InitManifest ==
  /\ host = LinuxHost
  /\ cache = [exists |-> FALSE, files |-> EmptyCacheFiles]
  /\ fs = [r \in Roots |-> FreshRoot]
  /\ last = NoOp
  /\ lastSync = NoSync
  /\ res = NoRes
  /\ disk = NoFile
  /\ lastCall = NoCall
  /\ attempts = <<>>
  /\ procs = <<>>
  /\ manifest = <<>>
  /\ lock = <<>>

NextManifest ==
  \/ \E name \in ToolNames : \E version \in AddVersions : Add(name, version)
  \/ \E name \in ToolNames : Remove(name)

SpecManifest == InitManifest /\ [][NextManifest]_vars

(***************************************************************************)
(* Claims about the manifest                                               *)
(***************************************************************************)
\* the numbers and the patch numbers with build metadata among the parts of
\* AddVersions
Numbers == {"1", "2", "3", "4", "42"}
NumbersWithBuild == {"1+b7"}

\* major.minor.patch, whatever follows the first '-'
IsSemVer(version) ==
  LET core == version[1]
  IN /\ Len(core) = 3
     /\ core[1] \in Numbers
     /\ core[2] \in Numbers
     /\ core[3] \in Numbers \cup NumbersWithBuild

\* C16: add fails and leaves the dependencies as they were when the version
\* is not a semantic version (what follows the first '-' not counted) or
\* the name is a dependency already; otherwise it inserts name -> version and
\* changes no other entry.  remove deletes the entry of the name and is a
\* successful no-op when there is none.
C16_AddAndRemove ==
  [][ /\ lastCall'.op = "add" =>
           IF ~IsSemVer(lastCall'.version) \/ lastCall'.name \in DOMAIN manifest
           THEN lastCall'.result = "err" /\ manifest' = manifest
           ELSE /\ lastCall'.result = "ok"
                /\ DOMAIN manifest' = DOMAIN manifest \cup {lastCall'.name}
                /\ manifest'[lastCall'.name] = lastCall'.version
                /\ \A n \in DOMAIN manifest : manifest'[n] = manifest[n]
      /\ lastCall'.op = "remove" =>
           /\ lastCall'.result = "ok"
           /\ DOMAIN manifest' = DOMAIN manifest \ {lastCall'.name}
           /\ \A n \in DOMAIN manifest' : manifest'[n] = manifest[n]
    ]_vars

\* an add of a dependency that is there already, with the version it has
C16_Witness ==
  /\ lastCall.op = "add" /\ lastCall.result = "err" /\ lastCall.existed
  /\ lastCall.name \in DOMAIN manifest
  /\ manifest[lastCall.name] = lastCall.version

\* C17: from the manifest of init, after any adds and removes, every
\* dependency's version is a semantic version major.minor.patch (what
\* follows the first '-' not counted), and a name has one entry.
C17_ManifestVersionsValid ==
  /\ \A n \in DOMAIN manifest : IsSemVer(manifest[n])
  /\ DOMAIN manifest \subseteq ToolNames

\* two dependencies after an add, one with a suffix and one with build
\* metadata
C17_Witness ==
  /\ lastCall.op = "add" /\ lastCall.result = "ok"
  /\ Cardinality(DOMAIN manifest) = 2
  /\ \E n \in DOMAIN manifest : manifest[n] = V_dash
  /\ \E n \in DOMAIN manifest : manifest[n] = V_build

(***************************************************************************)
(* installer::install_packages: every package of the lockfile              *)
(***************************************************************************)
\* what a run keeps of one install_package call
Attempt(p, o) == [pkg |-> p, result |-> o.result, shim |-> o.shim]

RunEnd(f, c, done, result) ==
  [fs |-> f, cache |-> c, attempts |-> done, result |-> result]

RECURSIVE install_all_from(_, _, _, _, _)
\* mutant: the loop goes on after a failure and reports the first one
install_all_from(h, f, c, packages, done) ==
  IF packages = <<>>
  THEN {RunEnd(f, c, done,
               IF \A i \in 1..Len(done) : done[i].result = "ok" THEN "ok"
               ELSE done[CHOOSE i \in 1..Len(done) :
                           /\ done[i].result # "ok"
                           /\ \A j \in 1..(i - 1) : done[j].result = "ok"].result)}
  ELSE UNION {install_all_from(h, o.fs, o.cache, Tail(packages),
                               Append(done, Attempt(Head(packages), o)))
                : o \in install_package(h, f, c, Head(packages), "cwd")}

RECURSIVE install_from(_, _, _, _, _)
\* the loop of install_packages: `install_package(package, &frate_dir)?` for
\* each package in turn, the `?` returning the first error
install_from(h, f, c, packages, done) ==
  IF packages = <<>> THEN {RunEnd(f, c, done, "ok")}
  ELSE UNION {IF o.result = "ok"
              THEN install_from(h, o.fs, o.cache, Tail(packages),
                                Append(done, Attempt(Head(packages), o)))
              ELSE {RunEnd(o.fs, o.cache,
                           Append(done, Attempt(Head(packages), o)), o.result)}
                : o \in install_package(h, f, c, Head(packages), "cwd")}

\* mutant of install_packages
install_packages_all(h, f, c, packages) ==
  install_all_from(h, ensure_frate_dirs(f, "cwd"), c, packages, <<>>)

\* install_packages(lock, project_root): the outcomes of a run
install_packages(h, f, c, packages) ==
  install_from(h, ensure_frate_dirs(f, "cwd"), c, packages, <<>>)

\* execute_install(None): one run of install_packages on the lockfile
InstallAll ==
  \E run \in install_packages(host, fs, cache, lock) :
    /\ fs' = run.fs
    /\ cache' = run.cache
    /\ attempts' = run.attempts
    /\ last' = Entry(last, "install_all", <<>>, run.result)
    /\ UNCHANGED <<host, manifest, lock, lastSync, res, disk, lastCall, procs>>

\* the lockfiles of a project: packages in any order, a package at most once
InstallLockfiles ==
  {l \in UNION {[1..n -> Packages] : n \in 0..MaxPkgs} :
     \A i, j \in 1..Len(l) : l[i] = l[j] => i = j}

InitInstallAll ==
  /\ host \in {LinuxHost, WindowsHost}
  /\ cache \in {[exists |-> e, files |-> EmptyCacheFiles] : e \in BOOLEAN}
  /\ fs = [r \in Roots |-> FreshRoot]
  /\ last = NoOp
  /\ manifest = <<>>
  /\ lock \in InstallLockfiles
  /\ lastSync = NoSync
  /\ res = NoRes
  /\ disk = NoFile
  /\ lastCall = NoCall
  /\ attempts = <<>>
  /\ procs = <<>>

NextInstallAll == InstallAll

SpecInstallAll == InitInstallAll /\ [][NextInstallAll]_vars

(***************************************************************************)
(* Claims about install_packages                                           *)
(***************************************************************************)
\* C20: a run of install_packages tries the packages of the lockfile in the
\* order of the lockfile, one after the other; it fails with the first
\* package that fails, tries none after it, and the packages installed
\* before it keep their directory and their shim.
C20_InstallAllStopsAtFirstFailure ==
  last.op = "install_all" =>
    /\ Len(attempts) <= Len(lock)
    /\ \A i \in 1..Len(attempts) : attempts[i].pkg = lock[i]
    /\ \A i \in 1..(Len(attempts) - 1) : attempts[i].result = "ok"
    /\ IF last.result = "ok"
       THEN /\ Len(attempts) = Len(lock)
            /\ \A i \in 1..Len(attempts) : attempts[i].result = "ok"
       ELSE /\ attempts # <<>>
            /\ attempts[Len(attempts)].result = last.result
    /\ \A i \in 1..Len(attempts) :
         attempts[i].result = "ok" =>
           /\ fs["cwd"].binExists
           /\ fs["cwd"].bin[attempts[i].pkg.name].exists
           /\ attempts[i].shim \in ShimPaths(fs, "cwd")

\* a run that installed the first package and failed on the second of two
C20_Witness ==
  /\ last.op = "install_all" /\ last.result # "ok"
  /\ Len(lock) = 2 /\ Len(attempts) = 2
  /\ attempts[1].result = "ok"
  /\ attempts[1].pkg.name # attempts[2].pkg.name
  /\ attempts[1].shim \in ShimPaths(fs, "cwd")

(***************************************************************************)
(* Claims about downloads and the archive cache                            *)
(***************************************************************************)
\* C21: after an install that downloaded a body whose SHA-256 is the
\* package's hash, from a source with a supported suffix, the cache holds
\* that body under the source's file name, whether or not the extraction
\* that follows succeeded.
C21_VerifiedDownloadIsCached ==
  (/\ last.op = "install" /\ last.get /\ last.body # NoBytes
   /\ Sha256Hex(last.body) = ExpectedDigest(last.pkg.hash)
   /\ SupportedSuffix(last.pkg.source))
    => /\ cache.exists
       /\ cache.files[FileNameOf(last.pkg.source)] = last.body

\* the cache directory holds a file with the name of the url's last segment
CacheHolds(c, url) == c.exists /\ c.files[FileNameOf(url)] # NoBytes

\* C22: an install makes an HTTP GET only when the cache has no file named
\* by the last segment of the package's source, and takes the archive from
\* the cache, without a GET, whenever there is one; a successful install
\* from the network leaves such a file, and a file of the cache goes away
\* or changes only by evict or clear.  So every install of P after a
\* successful one from the network is served from the cache until then.
C22_DownloadOnlyOnCacheMiss ==
  [][ /\ last'.op = "install" =>
           /\ CacheHolds(cache, last'.pkg.source) => (last'.hit /\ ~last'.get)
           /\ last'.get => ~CacheHolds(cache, last'.pkg.source)
           /\ (last'.get /\ last'.result = "ok")
                => CacheHolds(cache', last'.pkg.source)
      /\ \A n \in CacheFileNames :
           (cache.exists /\ cache.files[n] # NoBytes
              /\ (~cache'.exists \/ cache'.files[n] # cache.files[n]))
           => last'.op \in {"evict", "clean_cache"} ]_vars

\* an install after the package's directory was removed, served from the
\* cache that an earlier install from the network filled
C22_Witness ==
  /\ last.op = "install" /\ last.result = "ok"
  /\ last.hit /\ ~last.get /\ ~last.hadBin
  /\ CacheHolds(cache, last.pkg.source)

(***************************************************************************)
(* util::get_binary over the directories an archive may leave              *)
(***************************************************************************)
\* bin/{name} as an archive may leave it: absent, or with any of the files
BinDirs == {NoDirEntry} \cup {[exists |-> TRUE, files |-> fl] : fl \in SUBSET Files}

\* one call of get_binary(name): Ok(None), the error, or one of the files
\* the sort may leave first
LocateBinary(name) ==
  /\ \E gb \in {get_binary(host, fs, name)} :
       \E t \in (IF gb.found /\ gb.targets # {} THEN gb.targets ELSE {NoTarget}) :
         res' = [ran |-> TRUE, name |-> name,
                 outcome |-> IF ~gb.found THEN "none"
                             ELSE IF gb.targets = {} THEN "BinaryNotFound"
                             ELSE "found",
                 target |-> t]
  /\ InstallerUnchanged
  /\ UNCHANGED <<manifest, lock, lastSync>>

InitBinary ==
  /\ host \in {LinuxHost, WindowsHost}
  /\ cache = [exists |-> FALSE, files |-> EmptyCacheFiles]
  /\ fs \in {[r \in Roots |->
               IF r = "cwd"
               THEN [binExists |-> TRUE, shimsExists |-> TRUE,
                     bin |-> d, shims |-> {}]
               ELSE FreshRoot] : d \in [Names -> BinDirs]}
  /\ last = NoOp
  /\ manifest = <<>>
  /\ lock = <<>>
  /\ lastSync = NoSync
  /\ res = NoRes
  /\ disk = NoFile
  /\ lastCall = NoCall
  /\ attempts = <<>>
  /\ procs = <<>>

NextBinary == \E name \in Names : LocateBinary(name)

SpecBinary == InitBinary /\ [][NextBinary]_vars

(***************************************************************************)
(* Claims about locating the executable                                    *)
(***************************************************************************)
\* the files in the order of their names as strings:
\* "README.md" < "just" < "rg.exe"
LexOrder == <<F_readme, F_just, F_rg>>
LexIndex(f) == CHOOSE i \in 1..Len(LexOrder) : LexOrder[i] = f

\* the executable files of bin/{name} with the lowest rank
LowestRanked(name) ==
  LET candidates == {x \in fs["cwd"].bin[name].files : is_executable(host, x)}
  IN {x \in candidates : \A y \in candidates : Rank(name, x) <= Rank(name, y)}

\* C23: get_binary returns the candidate of the lowest rank whose name comes
\* first, whatever the order of the directory walk, and fails with
\* binary-not-found when bin/{name} has no executable file.
C23_LexicographicallyFirstCandidate ==
  (res.ran /\ fs["cwd"].bin[res.name].exists) =>
    IF LowestRanked(res.name) = {} THEN res.outcome = "BinaryNotFound"
    ELSE /\ res.outcome = "found"
         /\ res.target.file \in LowestRanked(res.name)
         /\ \A x \in LowestRanked(res.name) :
              LexIndex(res.target.file) <= LexIndex(x)

(***************************************************************************)
(* install_package with the install root the caller passes                 *)
(***************************************************************************)
\* ensure_frate_dirs(project_root) has run for both roots, as
\* install_packages(lock, project_root) does before it installs
InitRoots ==
  /\ host \in {LinuxHost, WindowsHost}
  /\ cache = [exists |-> FALSE, files |-> EmptyCacheFiles]
  /\ fs = [r \in Roots |-> InitRoot]
  /\ last = NoOp
  /\ manifest = <<>>
  /\ lock = <<>>
  /\ lastSync = NoSync
  /\ res = NoRes
  /\ disk = NoFile
  /\ lastCall = NoCall
  /\ attempts = <<>>
  /\ procs = <<>>

NextRoots == \E p \in Packages : \E r \in Roots : Install(p, r)

SpecRoots == InitRoots /\ [][NextRoots]_vars

\* C24: after a successful install(package, install_root) the shim
\* install_root/shims/{stem of the located executable} exists and points to a
\* file inside install_root/bin/{package.name}, for every install root.
C24_ShimPointsIntoInstallRoot ==
  (last.op = "install" /\ last.result = "ok") =>
    \E s \in fs[last.root].shims :
      /\ s.path = last.shim
      /\ file_stem(s.path) = file_stem(s.target.file)
      /\ s.target.root = last.root
      /\ s.target.name = last.pkg.name
      /\ s.target.file \in fs[last.root].bin[last.pkg.name].files

(***************************************************************************)
(* Claims about the resolved version key                                   *)
(***************************************************************************)
\* C25: on success the version key resolve returns is the key of the release
\* map under which the returned url and hash are stored, also when the
\* release was found under the libc-swapped key.
C25_ReturnedKeyIsMatchedKey ==
  (res.ran /\ res.tool.ok /\ res.out.ok) =>
    /\ res.out.version \in DOMAIN res.tool.releases
    /\ res.out.url = res.tool.releases[res.out.version].url
    /\ res.out.hash = res.tool.releases[res.out.version].hash

(***************************************************************************)
(* Claims about failed downloads and the cache operations                  *)
(***************************************************************************)
\* C26: when the GET of the package's source answers with a status outside
\* 200..299, install fails with a download error, extracts nothing, writes
\* nothing to the cache and leaves the cache as it was.
C26_FailedDownloadLeavesCache ==
  [][ (/\ last'.op = "install" /\ last'.get
       /\ ~(last'.status >= 200 /\ last'.status <= 299))
      => /\ last'.result = "DownloadError"
         /\ cache' = cache
         /\ last'.extracted = NoBytes
         /\ ~last'.stored
         /\ DestFiles(fs', last') = DestFiles(fs, last') ]_vars

\* an install whose GET was answered with 500 while the cache held another
\* archive
C26_Witness ==
  /\ last.op = "install" /\ last.get /\ last.status = 500
  /\ last.result = "DownloadError"
  /\ \E n \in CacheFileNames : cache.exists /\ cache.files[n] # NoBytes

(***************************************************************************)
(* The archive cache on its own: cache_archive, get_cached_archive and     *)
(* clean_cache                                                             *)
(***************************************************************************)
Sources == {p.source : p \in Packages}

\* contents given to cache_archive: an archive and bytes that are none
StoredBytes == {"A", "T"}

\* one call of cache_archive(url, bytes); hit: the file was there before
CacheArchive(url, bytes) ==
  /\ cache' = cache_archive(cache, url, bytes)
  /\ last' = [Entry(last, "store", url, "ok") EXCEPT
                !.body = bytes, !.stored = TRUE,
                !.hit = (cache.exists /\ cache.files[FileNameOf(url)] # NoBytes)]
  /\ UNCHANGED <<host, fs>>
  /\ SyncUnchanged

\* one call of get_cached_archive(url): Some(cache_dir/{file name}) or None;
\* content is what a read of the returned path gives
Lookup(url) ==
  /\ \E found \in {get_cached_archive(cache, url)} :
       res' = [ran |-> TRUE, url |-> url, found |-> found,
               path |-> IF found THEN CacheDirPath \o <<FileNameOf(url)>>
                        ELSE <<>>,
               content |-> IF found THEN cache.files[FileNameOf(url)]
                           ELSE NoBytes,
               afterStore |-> last.op = "store" /\ last.name = url,
               overwrote |-> last.op = "store" /\ last.name = url /\ last.hit]
  /\ InstallerUnchanged
  /\ UNCHANGED <<manifest, lock, lastSync>>

InitCache ==
  /\ host = LinuxHost
  /\ cache \in {[exists |-> e, files |-> EmptyCacheFiles] : e \in BOOLEAN}
  /\ fs = [r \in Roots |-> FreshRoot]
  /\ last = NoOp
  /\ manifest = <<>>
  /\ lock = <<>>
  /\ lastSync = NoSync
  /\ res = NoRes
  /\ disk = NoFile
  /\ lastCall = NoCall
  /\ attempts = <<>>
  /\ procs = <<>>

NextCache ==
  \/ \E url \in Sources : \E bytes \in StoredBytes : CacheArchive(url, bytes)
  \/ \E url \in Sources : Lookup(url)
  \/ CleanCache

SpecCache == InitCache /\ [][NextCache]_vars

\* C27: a store writes exactly the bytes under the url's file name and
\* nothing else, over a file that is there; a lookup finds the path
\* cache_root/{file name} iff a file of that name exists, whatever it holds,
\* so that after a store it finds the stored bytes; clear_all succeeds with
\* or without a cache root and leaves the root existing with no file.
C27_StoreLookupClear ==
  [][ /\ last'.op = "store" =>
           /\ last'.result = "ok"
           /\ cache'.exists
           /\ \A n \in CacheFileNames :
                cache'.files[n] = IF n = FileNameOf(last'.name) THEN last'.body
                                  ELSE IF cache.exists THEN cache.files[n]
                                  ELSE NoBytes
      /\ res' # res =>
           /\ res'.found <=>
                (cache.exists /\ cache.files[FileNameOf(res'.url)] # NoBytes)
           /\ res'.found =>
                /\ res'.path = CacheDirPath \o <<FileNameOf(res'.url)>>
                /\ res'.content = cache.files[FileNameOf(res'.url)]
           /\ res'.afterStore => (res'.found /\ res'.content = last.body)
      /\ last'.op = "clean_cache" =>
           /\ last'.result = "ok"
           /\ cache'.exists
           /\ \A n \in CacheFileNames : cache'.files[n] = NoBytes
    ]_vars

\* a lookup after a store that replaced a file
C27_Witness ==
  /\ res.ran /\ res.afterStore /\ res.overwrote /\ res.found
  /\ last.op = "store" /\ res.content = last.body
  /\ res.path = CacheDirPath \o <<FileNameOf(last.name)>>

(***************************************************************************)
(* A crash in the middle of the cache write                                *)
(***************************************************************************)
\* install_package(p, cwd/.frate) whose process dies inside cache_archive,
\* between File::create and the end of fs::write: the download was verified
\* and extracted, the cache file exists with a part of the bytes, and no
\* shim was created
InstallCrash(p) ==
  LET dest == [fs EXCEPT !["cwd"].binExists = TRUE,
                         !["cwd"].bin[p.name].exists = TRUE]
  IN /\ ~get_cached_archive(cache, p.source)
     /\ \E resp \in Responses :
          \E o \in {download_and_extract(dest, cache, "cwd", p.name, p.source,
                                         p.hash, resp)} :
            /\ o.result = "ok" /\ o.stored
            /\ fs' = o.fs
            /\ cache' = cache_archive(cache, p.source, Truncated)
            /\ last' = [Entry(last, "install", p.name, "Crashed") EXCEPT
                          !.pkg = p, !.get = TRUE, !.body = resp.body,
                          !.extracted = resp.body, !.status = resp.status]
     /\ UNCHANGED host
     /\ SyncUnchanged

InitCrash ==
  /\ host \in {LinuxHost, WindowsHost}
  /\ cache = [exists |-> FALSE, files |-> EmptyCacheFiles]
  /\ fs = [r \in Roots |-> IF r = "cwd" THEN InitRoot ELSE FreshRoot]
  /\ last = NoOp
  /\ manifest = <<>>
  /\ lock = <<>>
  /\ lastSync = NoSync
  /\ res = NoRes
  /\ disk = NoFile
  /\ lastCall = NoCall
  /\ attempts = <<>>
  /\ procs = <<>>

NextCrash ==
  \/ \E p \in Packages : Install(p, "cwd")
  \/ \E p \in Packages : InstallCrash(p)
  \/ CleanCache

SpecCrash == InitCrash /\ [][NextCrash]_vars

\* C28: the file a crashed cache write left stays in the cache; the next
\* install of the package finds it, fails with an integrity error, makes no
\* GET, extracts nothing and leaves the file as it is.
C28_TruncatedEntryIsFatalAndKept ==
  [][ /\ (last'.op = "install" /\ last'.result = "Crashed")
           => CacheHolds(cache', last'.pkg.source)
      /\ (/\ last'.op = "install" /\ last'.result # "Crashed"
          /\ cache.exists
          /\ cache.files[FileNameOf(last'.pkg.source)] = Truncated)
           => /\ last'.result = "IntegrityError"
              /\ last'.hit /\ ~last'.get
              /\ last'.extracted = NoBytes
              /\ DestFiles(fs', last') = DestFiles(fs, last')
              /\ cache' = cache ]_vars

\* the install of a package right after the crash of an install of it
C28_Witness ==
  /\ last.op = "install" /\ last.again /\ last.hit
  /\ last.result = "IntegrityError"
  /\ cache.files[FileNameOf(last.pkg.source)] = Truncated

(***************************************************************************)
(* Two invocations of install_package at once                              *)
(*                                                                         *)
(* Each invocation is a process of its own; the cache directory and the    *)
(* project directory are shared files.  A step is one file-system or       *)
(* network call of install_package, download_and_extract, extract_cached   *)
(* or cache_archive.                                                       *)
(***************************************************************************)
Procs == {"a", "b"}

\* mutant: every content passes the comparison of the hashes
hash_matches_any(bytes, expected) == TRUE

\* actual_hash == expected_hash, both in download_and_extract and in
\* extract_cached
hash_matches(bytes, expected) == Sha256Hex(bytes) = format_hash(expected)

\* an invocation before its first step; mem is the archive in memory
Idle(p) ==
  [pc |-> "start", pkg |-> p, hit |-> FALSE, mem |-> NoBytes,
   extracted |-> NoBytes, result |-> "running"]

Finish(q, result) == [q EXCEPT !.pc = "done", !.result = result]

\* create_dir_all(dest_dir), then get_cached_archive(source)
PStart(i) ==
  LET q == procs[i]
  IN /\ q.pc = "start"
     /\ fs' = [fs EXCEPT !["cwd"].binExists = TRUE,
                         !["cwd"].bin[q.pkg.name].exists = TRUE]
     /\ procs' = [procs EXCEPT ![i] =
                    IF get_cached_archive(cache, q.pkg.source)
                    THEN [q EXCEPT !.pc = "read", !.hit = TRUE]
                    ELSE [q EXCEPT !.pc = "get"]]
     /\ UNCHANGED cache

\* extract_cached: std::fs::read(cached_path), what the file holds now
PRead(i) ==
  LET q == procs[i]
  IN /\ q.pc = "read"
     /\ procs' = [procs EXCEPT ![i] =
                    [q EXCEPT !.pc = "verify",
                              !.mem = cache.files[FileNameOf(q.pkg.source)]]]
     /\ UNCHANGED <<cache, fs>>

\* download_and_extract: the GET and response.bytes()
PGet(i) ==
  LET q == procs[i]
  IN /\ q.pc = "get"
     /\ \E resp \in Responses :
          procs' = [procs EXCEPT ![i] =
                      IF ~(resp.status >= 200 /\ resp.status <= 299)
                      THEN Finish(q, "DownloadError")
                      ELSE [q EXCEPT !.pc = "verify", !.mem = resp.body]]
     /\ UNCHANGED <<cache, fs>>

\* the SHA-256 of the bytes in memory against the package's hash
PVerify(i) ==
  LET q == procs[i]
  IN /\ q.pc = "verify"
     /\ procs' = [procs EXCEPT ![i] =
                    IF hash_matches(q.mem, q.pkg.hash)
                    THEN [q EXCEPT !.pc = "extract"]
                    ELSE Finish(q, "IntegrityError")]
     /\ UNCHANGED <<cache, fs>>

\* zip.extract / archive.unpack from a Cursor over the bytes in memory
PExtract(i) ==
  LET q == procs[i]
      url == q.pkg.source
      ex == Extract(fs, "cwd", q.pkg.name, q.mem,
                    IF ends_with_zip(url) THEN "zip" ELSE "tar.gz")
  IN /\ q.pc = "extract"
     /\ IF ~(ends_with_zip(url) \/ ends_with_tar_gz(url))
        THEN /\ procs' = [procs EXCEPT ![i] = Finish(q, "UnsupportedArchiveType")]
             /\ fs' = fs
        ELSE IF ~ex.ok
        THEN /\ procs' = [procs EXCEPT ![i] = Finish(q, "ExtractionError")]
             /\ fs' = fs
        ELSE /\ procs' = [procs EXCEPT ![i] =
                            [q EXCEPT !.extracted = q.mem,
                                      !.pc = IF q.hit THEN "shim" ELSE "create"]]
             /\ fs' = ex.fs
     /\ UNCHANGED cache

\* download_and_extract: is_cached(url), then cache_archive up to
\* File::create, which leaves an empty file over whatever was there
PCreate(i) ==
  LET q == procs[i]
  IN /\ q.pc = "create"
     /\ IF is_cached(cache, q.pkg.source)
        THEN /\ procs' = [procs EXCEPT ![i] = [q EXCEPT !.pc = "shim"]]
             /\ cache' = cache
        ELSE /\ procs' = [procs EXCEPT ![i] = [q EXCEPT !.pc = "write"]]
             /\ cache' = cache_archive(cache, q.pkg.source, Truncated)
     /\ UNCHANGED fs

\* cache_archive: std::fs::write(path, bytes) has written all bytes
PWrite(i) ==
  LET q == procs[i]
  IN /\ q.pc = "write"
     /\ cache' = cache_archive(cache, q.pkg.source, q.mem)
     /\ procs' = [procs EXCEPT ![i] = [q EXCEPT !.pc = "shim"]]
     /\ UNCHANGED fs

\* get_binary and create_shim
PShim(i) ==
  LET q == procs[i]
      gb == get_binary(host, fs, q.pkg.name)
  IN /\ q.pc = "shim"
     /\ IF ~(gb.found /\ gb.targets # {})
        THEN /\ procs' = [procs EXCEPT ![i] = Finish(q, "BinaryNotFound")]
             /\ fs' = fs
        ELSE \E t \in gb.targets :
               \E cs \in {create_shim(host, fs, "cwd", t, file_stem(t.file))} :
                 /\ procs' = [procs EXCEPT ![i] =
                                Finish(q, IF cs.ok THEN "ok"
                                          ELSE "ShimCreationError")]
                 /\ fs' = cs.fs
     /\ UNCHANGED cache

PStep(i) ==
  /\ \/ PStart(i) \/ PRead(i) \/ PGet(i) \/ PVerify(i) \/ PExtract(i)
     \/ PCreate(i) \/ PWrite(i) \/ PShim(i)
  /\ UNCHANGED <<host, last, manifest, lock, lastSync, res, disk, lastCall,
                 attempts>>

\* both invocations install the same package; the cache is missing, empty,
\* or holds the package's archive
InitRace ==
  /\ host \in {LinuxHost, WindowsHost}
  /\ \E p \in Packages :
       /\ procs = [i \in Procs |-> Idle(p)]
       /\ cache \in {[exists |-> FALSE, files |-> EmptyCacheFiles],
                     [exists |-> TRUE, files |-> EmptyCacheFiles],
                     cache_archive([exists |-> TRUE, files |-> EmptyCacheFiles],
                                   p.source, "A")}
  /\ fs = [r \in Roots |-> IF r = "cwd" THEN InitRoot ELSE FreshRoot]
  /\ last = NoOp
  /\ manifest = <<>>
  /\ lock = <<>>
  /\ lastSync = NoSync
  /\ res = NoRes
  /\ disk = NoFile
  /\ lastCall = NoCall
  /\ attempts = <<>>

NextRace == \E i \in Procs : PStep(i)

SpecRace == InitRace /\ [][NextRace]_vars

\* C29: with two invocations installing the same package at once, in every
\* interleaving the bytes an invocation extracts have the SHA-256 of the
\* package's hash, whatever the other one does to the cache file meanwhile.
C29_ConcurrentInstallsExtractVerifiedBytes ==
  \A i \in DOMAIN procs :
    procs[i].extracted # NoBytes =>
      Sha256Hex(procs[i].extracted) = ExpectedDigest(procs[i].pkg.hash)

\* one invocation read the cache file while the other was writing it and
\* failed the hash check; the other one extracted the verified download
C29_Witness ==
  /\ DOMAIN procs = Procs
  /\ procs["b"].hit /\ procs["b"].mem = Truncated
  /\ procs["b"].result = "IntegrityError" /\ procs["b"].extracted = NoBytes
  /\ ~procs["a"].hit /\ procs["a"].extracted # NoBytes
  /\ procs["a"].pc = "done"

(***************************************************************************)
(* Claims about the names in the lockfile                                  *)
(***************************************************************************)
\* C30: after a sync every package name of the lockfile is a key of the
\* manifest's dependencies, and every dependency that resolved has a package
\* under its own name, so that get_locked finds a manifest tool by its name.
C30_LockedNamesAreManifestKeys ==
  lastSync.ran =>
    /\ \A i \in 1..Len(lock) : lock[i].name \in DOMAIN manifest
    /\ \A d \in ResolvedDeps : \E i \in 1..Len(lock) : lock[i].name = d

====
